---- MODULE Spec2Model ----
(***************************************************************************)
(* Settings resolution of the UnixFS core API options                      *)
(* (core/coreiface/options/unixfs.go): UnixfsAddOptions,                   *)
(* UnixfsWriteOptions and UnixfsMkdirOptions apply a caller-supplied       *)
(* sequence of option functions over a freshly allocated default record,   *)
(* run the implication rules and derive the CID prefix.                    *)
(*                                                                         *)
(* Each resolver call is a small process: it allocates its record, runs    *)
(* the option loop one option per step, then one step per rule of the      *)
(* function body, and finally returns (settings, prefix, err).             *)
(***************************************************************************)
EXTENDS Integers, Sequences, FiniteSets, TLC

(***************************************************************************)
(* Bounds of the model.                                                    *)
(***************************************************************************)
\* longest option sequence over the options that interact (version, hash,
\* raw leaves, no-copy)
MaxOpts == 4
\* longest option sequence over every option constructor of a resolver
MaxFrameOpts == 2
\* longest option sequence given to two concurrent calls
MaxConcOpts == 2

(***************************************************************************)
(* Values.                                                                 *)
(***************************************************************************)
\* mh.SHA2_256, the multihash code of sha2-256
SHA2_256 == 18
\* hash functions a caller passes: sha2-256, sha2-512 (0x13), blake2b-256
MhTypes == {SHA2_256, 19, 45600}
\* the two of them used in the long option sequences
CoreMhTypes == {SHA2_256, 19}
\* CID versions a caller passes: the sentinel -1, the two known versions and
\* two unknown ones
CidVersions == {-2, -1, 0, 1, 2}

BalancedLayout == "BalancedLayout"
TrickleLayout == "TrickleLayout"

\* errors: nil and the three errors the resolvers create
NilErr == [msg |-> "", arg |-> 0]
ErrNocopy == [msg |-> "nocopy option requires '--raw-leaves' to be enabled as well", arg |-> 0]
ErrCidV0 == [msg |-> "CIDv0 only supports sha2-256", arg |-> 0]
ErrUnknownCid(version) == [msg |-> "unknown CID version: %d", arg |-> version]

\* cid.Prefix{}, the zero value returned next to an error
EmptyPrefix == [Version |-> 0, Codec |-> 0, MhType |-> 0, MhLength |-> 0]

(***************************************************************************)
(* dag.PrefixForCidVersion: the prefix template of a CID version.          *)
(* Codec 112 is dag-pb.                                                    *)
(***************************************************************************)
PrefixForCidVersion(version) ==
  IF version \in {0, 1}
    THEN [prefix |-> [Version |-> version, Codec |-> 112,
                      MhType |-> SHA2_256, MhLength |-> -1],
          err |-> NilErr]
    ELSE [prefix |-> EmptyPrefix, err |-> ErrUnknownCid(version)]

(***************************************************************************)
(* Default records.                                                        *)
(***************************************************************************)
DefaultInlineLimit == 32

AddDefaults ==
  [CidVersion |-> -1, MhType |-> SHA2_256,
   Inline |-> FALSE, InlineLimit |-> DefaultInlineLimit,
   RawLeaves |-> FALSE, RawLeavesSet |-> FALSE,
   Chunker |-> "size-262144", Layout |-> BalancedLayout,
   Pin |-> FALSE, OnlyHash |-> FALSE, FsCache |-> FALSE, NoCopy |-> FALSE,
   Events |-> "nil", Silent |-> FALSE, Progress |-> FALSE,
   ToFiles |-> ""]

WriteDefaults ==
  [CidVersion |-> -1, MhType |-> SHA2_256,
   Offset |-> 0, Create |-> FALSE, Parents |-> FALSE, Truncate |-> FALSE,
   Count |-> 0, RawLeaves |-> FALSE]

MkdirDefaults ==
  [Parents |-> FALSE, CidVersion |-> -1, MhType |-> SHA2_256]

(***************************************************************************)
(* Option constructors: each returns a mutation of one settings record.    *)
(* Here the mutation is applied to the record `settings`.                  *)
(***************************************************************************)
CidVersion(version, settings) == [settings EXCEPT !.CidVersion = version]
Hash(mhtype, settings) == [settings EXCEPT !.MhType = mhtype]
\* faulty variant of RawLeaves: the option forgets to mark the field as set
RawLeavesNotMarked(enable, settings) == [settings EXCEPT !.RawLeaves = enable]
RawLeaves(enable, settings) ==
  [settings EXCEPT !.RawLeaves = enable, !.RawLeavesSet = TRUE]
Inline(enable, settings) == [settings EXCEPT !.Inline = enable]
InlineLimit(limit, settings) == [settings EXCEPT !.InlineLimit = limit]
Chunker(chunker, settings) == [settings EXCEPT !.Chunker = chunker]
Layout(layout, settings) == [settings EXCEPT !.Layout = layout]
Pin(pin, settings) == [settings EXCEPT !.Pin = pin]
HashOnly(hashOnly, settings) == [settings EXCEPT !.OnlyHash = hashOnly]
Events(sink, settings) == [settings EXCEPT !.Events = sink]
Silent(silent, settings) == [settings EXCEPT !.Silent = silent]
\* faulty variant of Progress: the closure writes the neighbouring field
ProgressSetsSilent(enable, settings) == [settings EXCEPT !.Silent = enable]
Progress(enable, settings) == [settings EXCEPT !.Progress = enable]
ToFiles(path, settings) == [settings EXCEPT !.ToFiles = path]
FsCache(enable, settings) == [settings EXCEPT !.FsCache = enable]
Nocopy(enable, settings) == [settings EXCEPT !.NoCopy = enable]

Parents(parents, settings) == [settings EXCEPT !.Parents = parents]
MkdirCidVersion(cidVer, settings) == [settings EXCEPT !.CidVersion = cidVer]
MkdirHash(mhtype, settings) == [settings EXCEPT !.MhType = mhtype]

WriteOffset(offset, settings) == [settings EXCEPT !.Offset = offset]
Create(create, settings) == [settings EXCEPT !.Create = create]
WriteParents(parents, settings) == [settings EXCEPT !.Parents = parents]
Truncate(truncate, settings) == [settings EXCEPT !.Truncate = truncate]
WriteRawLeaves(rawLeaves, settings) == [settings EXCEPT !.RawLeaves = rawLeaves]
WriteCount(count, settings) == [settings EXCEPT !.Count = count]
WriteCidVersion(cidVersion, settings) ==
  [settings EXCEPT !.CidVersion = cidVersion]
WriteHash(mhtype, settings) == [settings EXCEPT !.MhType = mhtype]

(***************************************************************************)
(* Options as values: <<constructor, argument>>.  UnixfsAddOption,         *)
(* UnixfsWriteOption and UnixfsMkdirOption are closures; calling one is    *)
(* applying its constructor's mutation.                                    *)
(***************************************************************************)
AddOption(opt, settings) ==
  CASE opt[1] = "CidVersion" -> CidVersion(opt[2], settings)
    [] opt[1] = "Hash" -> Hash(opt[2], settings)
    [] opt[1] = "RawLeaves" -> RawLeaves(opt[2], settings)
    [] opt[1] = "Inline" -> Inline(opt[2], settings)
    [] opt[1] = "InlineLimit" -> InlineLimit(opt[2], settings)
    [] opt[1] = "Chunker" -> Chunker(opt[2], settings)
    [] opt[1] = "Layout" -> Layout(opt[2], settings)
    [] opt[1] = "Pin" -> Pin(opt[2], settings)
    [] opt[1] = "HashOnly" -> HashOnly(opt[2], settings)
    [] opt[1] = "Events" -> Events(opt[2], settings)
    [] opt[1] = "Silent" -> Silent(opt[2], settings)
    [] opt[1] = "Progress" -> Progress(opt[2], settings)
    [] opt[1] = "ToFiles" -> ToFiles(opt[2], settings)
    [] opt[1] = "FsCache" -> FsCache(opt[2], settings)
    [] opt[1] = "Nocopy" -> Nocopy(opt[2], settings)

WriteOption(opt, settings) ==
  CASE opt[1] = "WriteOffset" -> WriteOffset(opt[2], settings)
    [] opt[1] = "Create" -> Create(opt[2], settings)
    [] opt[1] = "WriteParents" -> WriteParents(opt[2], settings)
    [] opt[1] = "Truncate" -> Truncate(opt[2], settings)
    [] opt[1] = "WriteRawLeaves" -> WriteRawLeaves(opt[2], settings)
    [] opt[1] = "WriteCount" -> WriteCount(opt[2], settings)
    [] opt[1] = "WriteCidVersion" -> WriteCidVersion(opt[2], settings)
    [] opt[1] = "WriteHash" -> WriteHash(opt[2], settings)

MkdirOption(opt, settings) ==
  CASE opt[1] = "Parents" -> Parents(opt[2], settings)
    [] opt[1] = "MkdirCidVersion" -> MkdirCidVersion(opt[2], settings)
    [] opt[1] = "MkdirHash" -> MkdirHash(opt[2], settings)

(***************************************************************************)
(* The options a caller may pass.                                          *)
(***************************************************************************)
Opts(name, args) == {<<name, a>> : a \in args}

\* the options whose fields the implication rules read
AddCoreOpts ==
  Opts("CidVersion", CidVersions) \cup Opts("Hash", CoreMhTypes)
    \cup Opts("RawLeaves", BOOLEAN) \cup Opts("Nocopy", BOOLEAN)
AddAllOpts ==
  AddCoreOpts \cup Opts("Hash", MhTypes)
    \cup Opts("Inline", BOOLEAN) \cup Opts("InlineLimit", {DefaultInlineLimit, 64})
    \cup Opts("Chunker", {"size-262144", "rabin-16-32-64"})
    \cup Opts("Layout", {BalancedLayout, TrickleLayout})
    \cup Opts("Pin", BOOLEAN) \cup Opts("HashOnly", BOOLEAN)
    \cup Opts("Events", {"nil", "sink"})
    \cup Opts("Silent", BOOLEAN) \cup Opts("Progress", BOOLEAN)
    \cup Opts("ToFiles", {"", "/mfs"}) \cup Opts("FsCache", BOOLEAN)

WriteCoreOpts ==
  Opts("WriteCidVersion", CidVersions) \cup Opts("WriteHash", CoreMhTypes)
    \cup Opts("WriteRawLeaves", BOOLEAN)
WriteAllOpts ==
  WriteCoreOpts \cup Opts("WriteHash", MhTypes)
    \cup Opts("WriteOffset", {0, 7}) \cup Opts("Create", BOOLEAN)
    \cup Opts("WriteParents", BOOLEAN) \cup Opts("Truncate", BOOLEAN)
    \cup Opts("WriteCount", {0, 7})

MkdirCoreOpts ==
  Opts("MkdirCidVersion", CidVersions) \cup Opts("MkdirHash", CoreMhTypes)
MkdirAllOpts ==
  MkdirCoreOpts \cup Opts("MkdirHash", MhTypes) \cup Opts("Parents", BOOLEAN)

SeqsUpTo(S, n) == UNION {[1..m -> S] : m \in 0..n}

Kinds == {"add", "write", "mkdir"}
CoreOpts(k) ==
  CASE k = "add" -> AddCoreOpts [] k = "write" -> WriteCoreOpts
    [] k = "mkdir" -> MkdirCoreOpts
AllOpts(k) ==
  CASE k = "add" -> AddAllOpts [] k = "write" -> WriteAllOpts
    [] k = "mkdir" -> MkdirAllOpts

\* the option sequences of one call
Inputs(k) == SeqsUpTo(CoreOpts(k), MaxOpts) \cup SeqsUpTo(AllOpts(k), MaxFrameOpts)
\* the option sequences given to concurrent calls
ConcInputs(k) == SeqsUpTo(CoreOpts(k), MaxConcOpts)

(***************************************************************************)
(* The rules of the resolver bodies.  A rule takes the record and returns  *)
(* the record after the rule and the error the rule returns (NilErr: the   *)
(* function goes on).                                                      *)
(***************************************************************************)
\* faulty variant of AddNocopyRule: the conflict is reported, raw leaves never forced
AddNocopyRuleNoForce(options) ==
  IF options.NoCopy /\ ~options.RawLeaves /\ options.RawLeavesSet
    THEN [options |-> options, err |-> ErrNocopy]
    ELSE [options |-> options, err |-> NilErr]

\* UnixfsAddOptions: nocopy -> rawblocks
AddNocopyRule(options) ==
  IF options.NoCopy /\ ~options.RawLeaves
    THEN IF options.RawLeavesSet
           THEN [options |-> options, err |-> ErrNocopy]
           ELSE [options |-> [options EXCEPT !.RawLeaves = TRUE], err |-> NilErr]
    ELSE [options |-> options, err |-> NilErr]

\* UnixfsAddOptions: (hash != "sha2-256") -> CIDv1
AddHashRule(options) ==
  IF options.MhType # SHA2_256
    THEN CASE options.CidVersion = 0 -> [options |-> options, err |-> ErrCidV0]
           [] options.CidVersion \in {1, -1} ->
                [options |-> [options EXCEPT !.CidVersion = 1], err |-> NilErr]
           [] OTHER ->
                [options |-> options, err |-> ErrUnknownCid(options.CidVersion)]
    ELSE IF options.CidVersion < 0
           THEN [options |-> [options EXCEPT !.CidVersion = 0], err |-> NilErr]
           ELSE [options |-> options, err |-> NilErr]

\* faulty variant of AddRawLeavesRule: the rule tests the value, not the set flag
AddRawLeavesRuleByValue(options) ==
  IF options.CidVersion > 0 /\ ~options.RawLeaves
    THEN [options EXCEPT !.RawLeaves = TRUE]
    ELSE options

\* UnixfsAddOptions: cidV1 -> raw blocks (by default)
AddRawLeavesRule(options) ==
  IF options.CidVersion > 0 /\ ~options.RawLeavesSet
    THEN [options EXCEPT !.RawLeaves = TRUE]
    ELSE options

\* faulty variant of AddPrefix: the error of PrefixForCidVersion is dropped
AddPrefixErrIgnored(options) ==
  [prefix |-> [PrefixForCidVersion(options.CidVersion).prefix
                 EXCEPT !.MhType = options.MhType, !.MhLength = -1],
   err |-> NilErr]

\* UnixfsAddOptions: the prefix of the resolved record
AddPrefix(options) ==
  LET r == PrefixForCidVersion(options.CidVersion)
  IN  IF r.err # NilErr
        THEN [prefix |-> EmptyPrefix, err |-> r.err]
        ELSE [prefix |-> [r.prefix EXCEPT !.MhType = options.MhType,
                                          !.MhLength = -1],
              err |-> NilErr]

\* faulty variant of WriteHashRule: the unset version is not a case of the switch
WriteHashRuleUnsetUnknown(options) ==
  IF options.MhType # SHA2_256
    THEN CASE options.CidVersion = 0 -> [options |-> options, err |-> ErrCidV0]
           [] options.CidVersion = 1 -> [options |-> options, err |-> NilErr]
           [] OTHER ->
                [options |-> options, err |-> ErrUnknownCid(options.CidVersion)]
    ELSE IF options.CidVersion < 0
           THEN [options |-> [options EXCEPT !.CidVersion = 0], err |-> NilErr]
           ELSE [options |-> options, err |-> NilErr]

\* UnixfsWriteOptions: (hash != "sha2-256") -> CIDv1
WriteHashRule(options) ==
  IF options.MhType # SHA2_256
    THEN CASE options.CidVersion = 0 -> [options |-> options, err |-> ErrCidV0]
           [] options.CidVersion \in {1, -1} ->
                [options |-> [options EXCEPT !.CidVersion = 1], err |-> NilErr]
           [] OTHER ->
                [options |-> options, err |-> ErrUnknownCid(options.CidVersion)]
    ELSE IF options.CidVersion < 0
           THEN [options |-> [options EXCEPT !.CidVersion = 0], err |-> NilErr]
           ELSE [options |-> options, err |-> NilErr]

\* UnixfsWriteOptions: cidV1 -> raw blocks (by default)
WriteRawLeavesRule(options) ==
  IF options.CidVersion > 0 /\ ~options.RawLeaves
    THEN [options EXCEPT !.RawLeaves = TRUE]
    ELSE options

\* UnixfsWriteOptions: the prefix of the resolved record
WritePrefix(options) ==
  LET r == PrefixForCidVersion(options.CidVersion)
  IN  IF r.err # NilErr
        THEN [prefix |-> EmptyPrefix, err |-> r.err]
        ELSE [prefix |-> [r.prefix EXCEPT !.MhType = options.MhType,
                                          !.MhLength = -1],
              err |-> NilErr]

\* faulty variant of MkdirHashRule: version 0 is upgraded instead of rejected
MkdirHashRuleV0Upgraded(options) ==
  IF options.MhType # SHA2_256
    THEN CASE options.CidVersion \in {0, 1, -1} ->
                [options |-> [options EXCEPT !.CidVersion = 1], err |-> NilErr]
           [] OTHER ->
                [options |-> options, err |-> ErrUnknownCid(options.CidVersion)]
    ELSE IF options.CidVersion < 0
           THEN [options |-> [options EXCEPT !.CidVersion = 0], err |-> NilErr]
           ELSE [options |-> options, err |-> NilErr]

\* UnixfsMkdirOptions: (hash != "sha2-256") -> CIDv1
MkdirHashRule(options) ==
  IF options.MhType # SHA2_256
    THEN CASE options.CidVersion = 0 -> [options |-> options, err |-> ErrCidV0]
           [] options.CidVersion \in {1, -1} ->
                [options |-> [options EXCEPT !.CidVersion = 1], err |-> NilErr]
           [] OTHER ->
                [options |-> options, err |-> ErrUnknownCid(options.CidVersion)]
    ELSE IF options.CidVersion < 0
           THEN [options |-> [options EXCEPT !.CidVersion = 0], err |-> NilErr]
           ELSE [options |-> options, err |-> NilErr]

\* faulty variant of MkdirPrefix: the hash function is not stamped on the prefix
MkdirPrefixHashNotStamped(options) ==
  LET r == PrefixForCidVersion(options.CidVersion)
  IN  IF r.err # NilErr
        THEN [prefix |-> EmptyPrefix, err |-> r.err]
        ELSE [prefix |-> [r.prefix EXCEPT !.MhLength = -1], err |-> NilErr]

\* UnixfsMkdirOptions: the prefix of the resolved record
MkdirPrefix(options) ==
  LET r == PrefixForCidVersion(options.CidVersion)
  IN  IF r.err # NilErr
        THEN [prefix |-> EmptyPrefix, err |-> r.err]
        ELSE [prefix |-> [r.prefix EXCEPT !.MhType = options.MhType,
                                          !.MhLength = -1],
              err |-> NilErr]

(***************************************************************************)
(* State.                                                                  *)
(***************************************************************************)
\* the resolver calls in flight
Calls == {1, 2}

VARIABLES
  kind,     \* the resolver called: "add", "write" or "mkdir"
  opts,     \* the option sequence passed to it (the variadic argument)
  pc,       \* pc[c]: where call c stands in the resolver body
  i,        \* i[c]: index of the next option of the loop of call c
  options,  \* options[c]: the local pointer `options` of call c (0: not yet set)
  heap,     \* the settings records allocated so far, by address
  result    \* result[c]: what call c returned, once pc[c] = "done"

vars == <<kind, opts, pc, i, options, heap, result>>

\* faulty variant of NewRecord: one package-level record serves every call
SharedRecord(c) == 1

\* the address of the record `&Unixfs...Settings{...}` allocates in call c:
\* every call gets a record of its own
NewRecord(c) == c

NoResult == [settings |-> 0, prefix |-> EmptyPrefix, err |-> NilErr]

\* where a call stands after its option loop
AfterLoop == IF kind = "add" THEN "nocopy" ELSE "hash"

\* return nil, cid.Prefix{}, err
ReturnErr(c, err) ==
  /\ pc' = [pc EXCEPT ![c] = "done"]
  /\ result' = [result EXCEPT ![c] = [settings |-> 0, prefix |-> EmptyPrefix,
                                      err |-> err]]

\* return options, prefix, nil
ReturnOk(c, prefix) ==
  /\ pc' = [pc EXCEPT ![c] = "done"]
  /\ result' = [result EXCEPT ![c] = [settings |-> options[c], prefix |-> prefix,
                                      err |-> NilErr]]

(***************************************************************************)
(* The steps of the three resolvers.                                       *)
(***************************************************************************)
\* UnixfsAddOptions: options := &UnixfsAddSettings{...}
AddAlloc(c) ==
  /\ pc[c] = "alloc"
  /\ kind = "add"
  /\ options' = [options EXCEPT ![c] = NewRecord(c)]
  /\ heap' = (NewRecord(c) :> AddDefaults) @@ heap
  /\ pc' = [pc EXCEPT ![c] = IF Len(opts) = 0 THEN AfterLoop ELSE "loop"]
  /\ UNCHANGED <<kind, opts, i, result>>

\* UnixfsAddOptions: one iteration of `for _, opt := range opts`; no option
\* returns an error
AddLoop(c) ==
  /\ pc[c] = "loop"
  /\ kind = "add"
  /\ heap' = [heap EXCEPT ![options[c]] = AddOption(opts[i[c]], @)]
  /\ i' = [i EXCEPT ![c] = @ + 1]
  /\ pc' = [pc EXCEPT ![c] = IF i[c] = Len(opts) THEN AfterLoop ELSE "loop"]
  /\ UNCHANGED <<kind, opts, options, result>>

\* UnixfsAddOptions: nocopy -> rawblocks
AddNocopyStep(c) ==
  /\ pc[c] = "nocopy"
  /\ kind = "add"
  /\ LET r == AddNocopyRule(heap[options[c]])
     IN  IF r.err # NilErr
           THEN /\ ReturnErr(c, r.err)
                /\ UNCHANGED heap
           ELSE /\ heap' = [heap EXCEPT ![options[c]] = r.options]
                /\ pc' = [pc EXCEPT ![c] = "hash"]
                /\ UNCHANGED result
  /\ UNCHANGED <<kind, opts, i, options>>

\* UnixfsAddOptions: (hash != "sha2-256") -> CIDv1
AddHashStep(c) ==
  /\ pc[c] = "hash"
  /\ kind = "add"
  /\ LET r == AddHashRule(heap[options[c]])
     IN  IF r.err # NilErr
           THEN /\ ReturnErr(c, r.err)
                /\ UNCHANGED heap
           ELSE /\ heap' = [heap EXCEPT ![options[c]] = r.options]
                /\ pc' = [pc EXCEPT ![c] = "raw"]
                /\ UNCHANGED result
  /\ UNCHANGED <<kind, opts, i, options>>

\* UnixfsAddOptions: cidV1 -> raw blocks (by default)
AddRawLeavesStep(c) ==
  /\ pc[c] = "raw"
  /\ kind = "add"
  /\ heap' = [heap EXCEPT ![options[c]] = AddRawLeavesRule(@)]
  /\ pc' = [pc EXCEPT ![c] = "prefix"]
  /\ UNCHANGED <<kind, opts, i, options, result>>

\* UnixfsAddOptions: derive the prefix, stamp it, return
AddPrefixStep(c) ==
  /\ pc[c] = "prefix"
  /\ kind = "add"
  /\ LET r == AddPrefix(heap[options[c]])
     IN  IF r.err # NilErr THEN ReturnErr(c, r.err) ELSE ReturnOk(c, r.prefix)
  /\ UNCHANGED <<kind, opts, i, options, heap>>

\* UnixfsWriteOptions: options := &UnixfsWriteSettings{...}
WriteAlloc(c) ==
  /\ pc[c] = "alloc"
  /\ kind = "write"
  /\ options' = [options EXCEPT ![c] = NewRecord(c)]
  /\ heap' = (NewRecord(c) :> WriteDefaults) @@ heap
  /\ pc' = [pc EXCEPT ![c] = IF Len(opts) = 0 THEN AfterLoop ELSE "loop"]
  /\ UNCHANGED <<kind, opts, i, result>>

\* UnixfsWriteOptions: one iteration of `for _, opt := range opts`; no option
\* returns an error
WriteLoop(c) ==
  /\ pc[c] = "loop"
  /\ kind = "write"
  /\ heap' = [heap EXCEPT ![options[c]] = WriteOption(opts[i[c]], @)]
  /\ i' = [i EXCEPT ![c] = @ + 1]
  /\ pc' = [pc EXCEPT ![c] = IF i[c] = Len(opts) THEN AfterLoop ELSE "loop"]
  /\ UNCHANGED <<kind, opts, options, result>>

\* UnixfsWriteOptions: (hash != "sha2-256") -> CIDv1
WriteHashStep(c) ==
  /\ pc[c] = "hash"
  /\ kind = "write"
  /\ LET r == WriteHashRule(heap[options[c]])
     IN  IF r.err # NilErr
           THEN /\ ReturnErr(c, r.err)
                /\ UNCHANGED heap
           ELSE /\ heap' = [heap EXCEPT ![options[c]] = r.options]
                /\ pc' = [pc EXCEPT ![c] = "raw"]
                /\ UNCHANGED result
  /\ UNCHANGED <<kind, opts, i, options>>

\* UnixfsWriteOptions: cidV1 -> raw blocks (by default)
WriteRawLeavesStep(c) ==
  /\ pc[c] = "raw"
  /\ kind = "write"
  /\ heap' = [heap EXCEPT ![options[c]] = WriteRawLeavesRule(@)]
  /\ pc' = [pc EXCEPT ![c] = "prefix"]
  /\ UNCHANGED <<kind, opts, i, options, result>>

\* UnixfsWriteOptions: derive the prefix, stamp it, return
WritePrefixStep(c) ==
  /\ pc[c] = "prefix"
  /\ kind = "write"
  /\ LET r == WritePrefix(heap[options[c]])
     IN  IF r.err # NilErr THEN ReturnErr(c, r.err) ELSE ReturnOk(c, r.prefix)
  /\ UNCHANGED <<kind, opts, i, options, heap>>

\* UnixfsMkdirOptions: options := &UnixfsMkdirSettings{...}
MkdirAlloc(c) ==
  /\ pc[c] = "alloc"
  /\ kind = "mkdir"
  /\ options' = [options EXCEPT ![c] = NewRecord(c)]
  /\ heap' = (NewRecord(c) :> MkdirDefaults) @@ heap
  /\ pc' = [pc EXCEPT ![c] = IF Len(opts) = 0 THEN AfterLoop ELSE "loop"]
  /\ UNCHANGED <<kind, opts, i, result>>

\* UnixfsMkdirOptions: one iteration of `for _, opt := range opts`; no option
\* returns an error
MkdirLoop(c) ==
  /\ pc[c] = "loop"
  /\ kind = "mkdir"
  /\ heap' = [heap EXCEPT ![options[c]] = MkdirOption(opts[i[c]], @)]
  /\ i' = [i EXCEPT ![c] = @ + 1]
  /\ pc' = [pc EXCEPT ![c] = IF i[c] = Len(opts) THEN AfterLoop ELSE "loop"]
  /\ UNCHANGED <<kind, opts, options, result>>

\* UnixfsMkdirOptions: (hash != "sha2-256") -> CIDv1
MkdirHashStep(c) ==
  /\ pc[c] = "hash"
  /\ kind = "mkdir"
  /\ LET r == MkdirHashRule(heap[options[c]])
     IN  IF r.err # NilErr
           THEN /\ ReturnErr(c, r.err)
                /\ UNCHANGED heap
           ELSE /\ heap' = [heap EXCEPT ![options[c]] = r.options]
                /\ pc' = [pc EXCEPT ![c] = "prefix"]
                /\ UNCHANGED result
  /\ UNCHANGED <<kind, opts, i, options>>

\* UnixfsMkdirOptions: derive the prefix, stamp it, return
MkdirPrefixStep(c) ==
  /\ pc[c] = "prefix"
  /\ kind = "mkdir"
  /\ LET r == MkdirPrefix(heap[options[c]])
     IN  IF r.err # NilErr THEN ReturnErr(c, r.err) ELSE ReturnOk(c, r.prefix)
  /\ UNCHANGED <<kind, opts, i, options, heap>>

UnixfsAddOptions(c) ==
  \/ AddAlloc(c) \/ AddLoop(c) \/ AddNocopyStep(c) \/ AddHashStep(c)
  \/ AddRawLeavesStep(c) \/ AddPrefixStep(c)
UnixfsWriteOptions(c) ==
  \/ WriteAlloc(c) \/ WriteLoop(c) \/ WriteHashStep(c)
  \/ WriteRawLeavesStep(c) \/ WritePrefixStep(c)
UnixfsMkdirOptions(c) ==
  \/ MkdirAlloc(c) \/ MkdirLoop(c) \/ MkdirHashStep(c) \/ MkdirPrefixStep(c)

Next ==
  \E c \in Calls :
    UnixfsAddOptions(c) \/ UnixfsWriteOptions(c) \/ UnixfsMkdirOptions(c)

\* the calls start at the top of the resolver; a call not made is "idle"
Start(made, inputs) ==
  /\ kind = inputs[1]
  /\ opts = inputs[2]
  /\ pc = [c \in Calls |-> IF c \in made THEN "alloc" ELSE "idle"]
  /\ i = [c \in Calls |-> 1]
  /\ options = [c \in Calls |-> 0]
  /\ heap = <<>>
  /\ result = [c \in Calls |-> NoResult]

\* one resolver call on any option sequence
Init == \E k \in Kinds : \E s \in Inputs(k) : Start({1}, <<k, s>>)
Spec == Init /\ [][Next]_vars

\* two concurrent resolver calls on the same option sequence
InitConc == \E k \in Kinds : \E s \in ConcInputs(k) : Start(Calls, <<k, s>>)
SpecConc == InitConc /\ [][Next]_vars

(***************************************************************************)
(* What the caller passed, read off the option sequence alone.             *)
(***************************************************************************)
Done(c) == pc[c] = "done"
\* the call returned a settings record and a nil error
Ok(c) == Done(c) /\ result[c].err = NilErr /\ result[c].settings # 0
\* the call returned nil, cid.Prefix{} and the error err
Failed(c, err) ==
  Done(c) /\ result[c] = [settings |-> 0, prefix |-> EmptyPrefix, err |-> err]
\* the record a successful call returned
Resolved(c) == heap[result[c].settings]

VersionOpt ==
  CASE kind = "add" -> "CidVersion" [] kind = "write" -> "WriteCidVersion"
    [] kind = "mkdir" -> "MkdirCidVersion"
HashOpt ==
  CASE kind = "add" -> "Hash" [] kind = "write" -> "WriteHash"
    [] kind = "mkdir" -> "MkdirHash"
RawOpt == IF kind = "add" THEN "RawLeaves" ELSE "WriteRawLeaves"

\* the options of one constructor, in the caller's order
Passed(name) == SelectSeq(opts, LAMBDA o : o[1] = name)
\* the argument of the last option of a constructor, or the field's default
LastArg(name, default) ==
  IF Len(Passed(name)) = 0 THEN default ELSE Passed(name)[Len(Passed(name))][2]

InputVersion == LastArg(VersionOpt, -1)
InputHash == LastArg(HashOpt, SHA2_256)
InputNocopy == kind = "add" /\ LastArg("Nocopy", FALSE)
RawExplicit == kind # "mkdir" /\ Len(Passed(RawOpt)) > 0
InputRaw == LastArg(RawOpt, FALSE)
\* no-copy asked for together with an explicit raw-leaves=false
NocopyConflict == InputNocopy /\ RawExplicit /\ ~InputRaw

(***************************************************************************)
(* C1: in each of the three resolvers, whatever options were passed        *)
(* (CID-version options with any integer included), a resolution that      *)
(* succeeds returns a record whose CidVersion is 0 or 1: never the unset   *)
(* sentinel -1, never another value.                                       *)
(***************************************************************************)
C1_ResolvedVersionKnown ==
  \A c \in Calls : Ok(c) => Resolved(c).CidVersion \in {0, 1}

\* a successful resolution although the caller passed a version other than 0, 1
C1_Witness ==
  /\ Ok(1)
  /\ Len(Passed(VersionOpt)) > 0
  /\ InputVersion \notin {0, 1}

(***************************************************************************)
(* C2: in each resolver, if the hash function after all options is not     *)
(* sha2-256 and resolution succeeds, the resolved CidVersion is 1; and     *)
(* with the CID version left unset or set to 1 resolution does succeed.    *)
(***************************************************************************)
\* the claim as stated
C2_Original ==
  \A c \in Calls :
    (Done(c) /\ InputHash # SHA2_256) =>
      /\ Ok(c) => Resolved(c).CidVersion = 1
      /\ InputVersion \in {-1, 1} => Ok(c) /\ Resolved(c).CidVersion = 1

\* the claim amended: resolution succeeds unless, in the Add resolver,
\* no-copy meets an explicit raw-leaves=false
C2_NonDefaultHashImpliesV1 ==
  \A c \in Calls :
    (Done(c) /\ InputHash # SHA2_256) =>
      /\ Ok(c) => Resolved(c).CidVersion = 1
      /\ (InputVersion \in {-1, 1} /\ ~NocopyConflict) =>
           Ok(c) /\ Resolved(c).CidVersion = 1

\* a non-default hash with the version left unset resolved to version 1
C2_Witness ==
  /\ Ok(1)
  /\ InputHash # SHA2_256
  /\ Len(Passed(VersionOpt)) = 0
  /\ Resolved(1).CidVersion = 1

(***************************************************************************)
(* C3: in each resolver, a hash function other than sha2-256 together with *)
(* an explicit CID version 0 makes resolution fail with "CIDv0 only        *)
(* supports sha2-256", returning nil and the empty prefix, and the call    *)
(* never gets as far as deriving a prefix.                                 *)
(***************************************************************************)
\* the claim as stated
C3_Original ==
  \A c \in Calls :
    (InputHash # SHA2_256 /\ InputVersion = 0) =>
      /\ pc[c] \notin {"raw", "prefix"}
      /\ Done(c) => Failed(c, ErrCidV0)

\* the claim amended: unless, in the Add resolver, no-copy meets an explicit
\* raw-leaves=false, which is reported first
C3_V0NeedsSha256 ==
  \A c \in Calls :
    (InputHash # SHA2_256 /\ InputVersion = 0) =>
      /\ pc[c] \notin {"raw", "prefix"}
      /\ Done(c) => IF NocopyConflict THEN Failed(c, ErrNocopy)
                                      ELSE Failed(c, ErrCidV0)

\* a call given version 0 and another hash has returned the error
C3_Witness ==
  /\ InputHash # SHA2_256
  /\ InputVersion = 0
  /\ Failed(1, ErrCidV0)

(***************************************************************************)
(* C4: a successful Add resolution whose resolved CidVersion is 1 has      *)
(* RawLeaves false exactly when the caller passed a RawLeaves option and   *)
(* the last one passed false; never set, it is true.                       *)
(***************************************************************************)
C4_V1RawLeavesUnlessExplicit ==
  \A c \in Calls :
    (kind = "add" /\ Ok(c) /\ Resolved(c).CidVersion = 1) =>
      (Resolved(c).RawLeaves = FALSE <=> (RawExplicit /\ ~InputRaw))

\* RawLeaves(true) overridden by a later RawLeaves(false), kept under CIDv1
C4_Witness ==
  /\ kind = "add"
  /\ Ok(1)
  /\ Resolved(1).CidVersion = 1
  /\ Len(Passed("RawLeaves")) >= 2
  /\ Passed("RawLeaves")[1][2] = TRUE
  /\ ~InputRaw
  /\ Resolved(1).RawLeaves = FALSE

(***************************************************************************)
(* C5: a successful Add resolution with NoCopy true has RawLeaves true,    *)
(* whatever the hash function and the CID version.                         *)
(***************************************************************************)
C5_NocopyImpliesRawLeaves ==
  \A c \in Calls :
    (kind = "add" /\ Ok(c) /\ Resolved(c).NoCopy) => Resolved(c).RawLeaves

\* no-copy alone, under CIDv0: raw leaves forced by the no-copy rule
C5_Witness ==
  /\ kind = "add"
  /\ Ok(1)
  /\ Resolved(1).NoCopy
  /\ ~RawExplicit
  /\ Resolved(1).CidVersion = 0
  /\ Resolved(1).RawLeaves

(***************************************************************************)
(* C6: in the Add resolver, NoCopy true with RawLeaves explicitly false    *)
(* fails with the no-copy error, returning nil and the empty prefix, also  *)
(* when the options combine version 0 with another hash or carry an        *)
(* unknown CID version.                                                    *)
(***************************************************************************)
C6_NocopyConflictFirst ==
  \A c \in Calls : (Done(c) /\ NocopyConflict) => Failed(c, ErrNocopy)

\* the conflict reported although version 0 meets a hash other than sha2-256
C6_Witness ==
  /\ NocopyConflict
  /\ InputHash # SHA2_256
  /\ InputVersion = 0
  /\ Failed(1, ErrNocopy)

(***************************************************************************)
(* C7: a Write resolution ending with CidVersion 1 in which the caller     *)
(* passed WriteRawLeaves(false) last returns RawLeaves false, as the Add   *)
(* resolver does.                                                          *)
(***************************************************************************)
C7_WriteExplicitRawLeavesKept ==
  \A c \in Calls :
    (kind = "write" /\ Ok(c) /\ Resolved(c).CidVersion = 1
       /\ RawExplicit /\ ~InputRaw) => Resolved(c).RawLeaves = FALSE

(***************************************************************************)
(* C8: in each resolver and for every hash function, an explicit CID       *)
(* version that is neither 0 nor 1 makes resolution fail with "unknown CID *)
(* version".  The sentinel -1, which the record cannot tell from "not      *)
(* set", is left out here: the statement fails without it.                 *)
(***************************************************************************)
C8_UnknownVersionRejected ==
  \A c \in Calls :
    (Done(c) /\ InputVersion \notin {-1, 0, 1}) =>
      Failed(c, ErrUnknownCid(InputVersion))

(***************************************************************************)
(* C9: on every successful resolution the prefix agrees with the record:   *)
(* same version, same hash function, and the hash length is the sentinel   *)
(* -1.                                                                     *)
(***************************************************************************)
C9_PrefixMatchesSettings ==
  \A c \in Calls :
    Ok(c) =>
      /\ result[c].prefix.Version = Resolved(c).CidVersion
      /\ result[c].prefix.MhType = Resolved(c).MhType
      /\ result[c].prefix.MhLength = -1

\* a prefix carrying a hash function other than the template's
C9_Witness ==
  /\ Ok(1)
  /\ Resolved(1).MhType # SHA2_256
  /\ result[1].prefix.MhType = Resolved(1).MhType
  /\ result[1].prefix.Version = 1

(***************************************************************************)
(* C10: two resolutions of the same option sequence, in any interleaving   *)
(* of their steps, return the same error, the same prefix and records with *)
(* the same contents.                                                      *)
(***************************************************************************)
C10_Deterministic ==
  (Done(1) /\ Done(2)) =>
    /\ result[1].err = result[2].err
    /\ result[1].prefix = result[2].prefix
    /\ (result[1].settings = 0) = (result[2].settings = 0)
    /\ result[1].settings # 0 => Resolved(1) = Resolved(2)

\* both calls returned a record after a loop of two options or more
C10_Witness ==
  /\ Ok(1) /\ Ok(2)
  /\ Len(opts) >= 2
  /\ Resolved(1).CidVersion = 1

(***************************************************************************)
(* C11: the options are applied in the caller's order over the defaults    *)
(* and the rules change CidVersion and RawLeaves only: after a successful  *)
(* Add resolution every other field holds the argument of the last option  *)
(* passed for it, or its default when no such option was passed.           *)
(***************************************************************************)
C11_OtherFieldsLastOptionOrDefault ==
  \A c \in Calls :
    (kind = "add" /\ Ok(c)) =>
      /\ Resolved(c).MhType = LastArg("Hash", SHA2_256)
      /\ Resolved(c).Inline = LastArg("Inline", FALSE)
      /\ Resolved(c).InlineLimit = LastArg("InlineLimit", 32)
      /\ Resolved(c).Chunker = LastArg("Chunker", "size-262144")
      /\ Resolved(c).Layout = LastArg("Layout", BalancedLayout)
      /\ Resolved(c).Pin = LastArg("Pin", FALSE)
      /\ Resolved(c).OnlyHash = LastArg("HashOnly", FALSE)
      /\ Resolved(c).FsCache = LastArg("FsCache", FALSE)
      /\ Resolved(c).NoCopy = LastArg("Nocopy", FALSE)
      /\ Resolved(c).Silent = LastArg("Silent", FALSE)
      /\ Resolved(c).Progress = LastArg("Progress", FALSE)
      /\ Resolved(c).ToFiles = LastArg("ToFiles", "")

\* two Hash options, the later one kept, in a resolution whose rules moved
\* CidVersion and RawLeaves off their defaults
C11_Witness ==
  /\ kind = "add"
  /\ Ok(1)
  /\ Len(Passed("Hash")) >= 2
  /\ Passed("Hash")[1][2] # InputHash
  /\ Resolved(1).MhType = InputHash
  /\ Resolved(1).CidVersion = 1
  /\ Resolved(1).RawLeaves

====
